---- MODULE Spec2Model ----
(***************************************************************************)
(* State-machine model of the EHR backend in src/backend/server.py: the    *)
(* four MongoDB collections, the JWT session tokens held by clients, the   *)
(* wall clock, and one action per HTTP endpoint.  Every handler is a pure  *)
(* operator from (request, database) to (status code, body, database').    *)
(***************************************************************************)
EXTENDS Integers, Sequences, FiniteSets, TLC

VARIABLES
    users,          \* db.users, in insertion (natural) order
    patients,       \* db.patients, in insertion order
    soap_notes,     \* db.soap_notes, in insertion order
    appointments,   \* db.appointments, in insertion order
    now,            \* datetime.now(timezone.utc).timestamp(), in seconds
    tokens,         \* the signed tokens clients hold (login responses)
    bearer_status,  \* what HTTPBearer() answers when the header is unusable
    inflight        \* per client, the request whose handler is suspended at an await

db == <<users, patients, soap_notes, appointments>>
vars == <<users, patients, soap_notes, appointments, now, tokens, bearer_status, inflight>>

-----------------------------------------------------------------------------
(* Bounds of the model *)

MaxUsers == 6
MaxPatients == 2
MaxNotes == 1
MaxAppointments == 1
MaxTokens == 1
MaxTicks == 2
MaxClients == 2

-----------------------------------------------------------------------------
(* Enums and constants of the program *)

SUPER_ADMIN == "super_admin"
FRONT_DESK == "front_desk"
DOCTOR == "doctor"
PATIENT == "patient"
UserRole == {SUPER_ADMIN, FRONT_DESK, DOCTOR, PATIENT}

REGISTERED == "registered"
CONSULTING == "consulting"
COMPLETED == "completed"
PatientStatus == {REGISTERED, CONSULTING, COMPLETED}

JWT_SECRET == "your-secret-key-here"
JWT_ALGORITHM == "HS256"
TOKEN_TTL == 86400

\* Python's None, and the empty string (both falsy), as id-like values
NoneValue == "<None>"
EmptyString == ""
None == [is_none |-> TRUE]

\* the clock advances in steps of half a token lifetime
TickSeconds == TOKEN_TTL \div 2

-----------------------------------------------------------------------------
(* Helpers *)

Min(S) == CHOOSE x \in S : \A y \in S : x <= y

Range(s) == {s[i] : i \in DOMAIN s}

\* str(uuid.uuid4()): a fresh identifier, never equal to an earlier one
uuid4(prefix, n) == prefix \o ToString(n)

\* collection.find_one(filter): the first matching document in natural order
find_one(coll, Match(_)) ==
    LET hits == {i \in DOMAIN coll : Match(coll[i])}
    IN  IF hits = {} THEN None ELSE coll[Min(hits)]

\* collection.find(filter).to_list(length=None)
find(coll, Match(_)) == SelectSeq(coll, Match)

\* collection.count_documents(filter)
count_documents(coll, Match(_)) == Cardinality({i \in DOMAIN coll : Match(coll[i])})

\* bcrypt: a one-way hash, checked by re-hashing
hash_password(password) == <<"bcrypt", password>>
verify_password(password, hashed) == hashed = <<"bcrypt", password>>

\* jwt.encode / jwt.decode with HS256: the signature binds payload and key
jwt_sign(payload, key) == <<JWT_ALGORITHM, key, payload>>
jwt_encode(payload, key) == [payload |-> payload, sig |-> jwt_sign(payload, key)]

create_jwt_token(user_id, role) ==
    jwt_encode([user_id |-> user_id, role |-> role, exp |-> now + TOKEN_TTL], JWT_SECRET)

\* jwt.decode that still accepts a token at the instant of its expiry
jwt_decode_error_StrictlyAfter(token, key) ==
    IF token.sig # jwt_sign(token.payload, key) THEN "InvalidTokenError"
    ELSE IF token.payload.exp < now THEN "ExpiredSignatureError"
    ELSE ""

\* jwt.decode: "" or the exception raised
jwt_decode_error(token, key) ==
    IF token.sig # jwt_sign(token.payload, key) THEN "InvalidTokenError"
    ELSE IF token.payload.exp <= now THEN "ExpiredSignatureError"
    ELSE ""

-----------------------------------------------------------------------------
(* Requests: the Authorization header *)

NoHeader == [scheme |-> "", token |-> None]
Bearer(t) == [scheme |-> "Bearer", token |-> t]

\* "Bearer invalid-token" and a token signed with a key that is not JWT_SECRET
GarbageToken == [payload |-> [user_id |-> NoneValue, role |-> NoneValue, exp |-> 0],
                 sig |-> <<"invalid-token">>]
ForgedToken ==
    jwt_encode([user_id |-> uuid4("u", 1), role |-> SUPER_ADMIN,
                exp |-> (MaxTicks + 2) * TickSeconds + TOKEN_TTL], "attacker-key")

BasicHeader == [scheme |-> "Basic", token |-> GarbageToken]

Headers == {NoHeader, BasicHeader, Bearer(GarbageToken), Bearer(ForgedToken)}
               \cup {Bearer(t) : t \in tokens}

\* security = HTTPBearer(): an unusable header is answered by the framework
HTTPBearer(header) ==
    IF header.scheme # "Bearer" \/ header.token = None
    THEN [ok |-> FALSE, code |-> bearer_status, detail |-> "Not authenticated",
          credentials |-> None]
    ELSE [ok |-> TRUE, code |-> 200, detail |-> "", credentials |-> header.token]

Unauthorized(detail) == [ok |-> FALSE, code |-> 401, detail |-> detail, user |-> None]

get_current_user(header) ==
    LET sec == HTTPBearer(header) IN
    IF ~sec.ok THEN [ok |-> FALSE, code |-> sec.code, detail |-> sec.detail, user |-> None]
    ELSE LET err == jwt_decode_error(sec.credentials, JWT_SECRET)
             user_id == sec.credentials.payload.user_id
             IdIs(u) == u.id = user_id
             user == find_one(users, IdIs)
         IN  IF err = "ExpiredSignatureError" THEN Unauthorized("Token expired")
             ELSE IF err = "InvalidTokenError" THEN Unauthorized("Invalid token")
             ELSE IF user_id \in {NoneValue, EmptyString} THEN Unauthorized("Invalid token")
             ELSE IF user = None THEN Unauthorized("User not found")
             ELSE [ok |-> TRUE, code |-> 200, detail |-> "", user |-> user]

HTTPException(code, detail) == [code |-> code, body |-> [detail |-> detail]]

-----------------------------------------------------------------------------
(* Pydantic models: what a stored document looks like once validated *)

\* User(**user): the stored password is not a field of User
User(doc) == [id |-> doc.id, email |-> doc.email, name |-> doc.name, role |-> doc.role,
              created_at |-> doc.created_at, is_active |-> doc.is_active]

\* PatientCreate without the filtering of undeclared fields
PatientCreate_KeepsExtras(body) == body

\* PatientCreate: the request body validated; fields the model does not declare
\* are dropped.  The demographic fields other than email are carried unread
\* and are left out.
PatientCreate(body) == [email |-> body.email]

\* Patient(**patient_dict): id, patient code, status, doctor and timestamps take
\* their defaults unless patient_dict names them
Patient(patient_dict, n) ==
    patient_dict @@
    [id |-> uuid4("p", n), patient_id |-> uuid4("P", n),
     status |-> REGISTERED, assigned_doctor_id |-> NoneValue,
     created_at |-> now, updated_at |-> now]

\* SOAPNotesCreate: the request body validated; undeclared fields are dropped
SOAPNotesCreate(body) ==
    [patient_id |-> body.patient_id, subjective |-> body.subjective,
     objective |-> body.objective, assessment |-> body.assessment, plan |-> body.plan]

SOAPNotes(soap_dict, n) ==
    [id |-> uuid4("n", n), patient_id |-> soap_dict.patient_id,
     doctor_id |-> soap_dict.doctor_id,
     subjective |-> soap_dict.subjective, objective |-> soap_dict.objective,
     assessment |-> soap_dict.assessment, plan |-> soap_dict.plan,
     consultation_date |-> now, created_at |-> now]

Appointment(appointment_dict, n) ==
    [id |-> uuid4("a", n), patient_id |-> appointment_dict.patient_id,
     doctor_id |-> appointment_dict.doctor_id,
     appointment_date |-> appointment_dict.appointment_date,
     status |-> "scheduled", notes |-> appointment_dict.notes, created_at |-> now]

-----------------------------------------------------------------------------
(* Startup: create_sample_data on an empty database, at time 0; requests   *)
(* are served from a later time on                                          *)

sample_users ==
    << [id |-> uuid4("u", 1), email |-> "admin@clinic.com",
        password |-> hash_password("admin123"), name |-> "Super Admin",
        role |-> SUPER_ADMIN, created_at |-> 0, is_active |-> TRUE],
       [id |-> uuid4("u", 2), email |-> "frontdesk@clinic.com",
        password |-> hash_password("front123"), name |-> "Front Desk Staff",
        role |-> FRONT_DESK, created_at |-> 0, is_active |-> TRUE],
       [id |-> uuid4("u", 3), email |-> "doctor@clinic.com",
        password |-> hash_password("doctor123"), name |-> "Dr. Smith",
        role |-> DOCTOR, created_at |-> 0, is_active |-> TRUE],
       [id |-> uuid4("u", 4), email |-> "patient@example.com",
        password |-> hash_password("patient123"), name |-> "John Doe",
        role |-> PATIENT, created_at |-> 0, is_active |-> TRUE] >>

sample_patient ==
    [id |-> uuid4("p", 1), patient_id |-> "P12345678",
     email |-> "patient@example.com",
     status |-> REGISTERED, assigned_doctor_id |-> NoneValue,
     created_by |-> sample_users[2].id,
     created_at |-> 0, updated_at |-> 0]

-----------------------------------------------------------------------------
(* Authentication routes *)

\* register that hashes the display name in place of the secret
register_HashesName(user_data) ==
    LET EmailIs(u) == u.email = user_data.email
        existing_user == find_one(users, EmailIs)
        user == [id |-> uuid4("u", Len(users) + 1), email |-> user_data.email,
                 name |-> user_data.name, role |-> user_data.role,
                 created_at |-> now, is_active |-> TRUE,
                 password |-> hash_password(user_data.name)]
    IN  IF existing_user # None
        THEN HTTPException(400, "Email already registered") @@ [users |-> users]
        ELSE [code |-> 200,
              body |-> [message |-> "User registered successfully", user_id |-> user.id],
              users |-> Append(users, user)]

\* register without the lookup of the email
register_NoEmailCheck(user_data) ==
    LET user == [id |-> uuid4("u", Len(users) + 1), email |-> user_data.email,
                 name |-> user_data.name, role |-> user_data.role,
                 created_at |-> now, is_active |-> TRUE,
                 password |-> hash_password(user_data.password)]
    IN  [code |-> 200,
         body |-> [message |-> "User registered successfully", user_id |-> user.id],
         users |-> Append(users, user)]

\* register that overwrites the identity that already has the email
register_Upsert(user_data) ==
    LET EmailIs(u) == u.email = user_data.email
        existing_user == find_one(users, EmailIs)
        user == [id |-> uuid4("u", Len(users) + 1), email |-> user_data.email,
                 name |-> user_data.name, role |-> user_data.role,
                 created_at |-> now, is_active |-> TRUE,
                 password |-> hash_password(user_data.password)]
    IN  IF existing_user # None
        THEN [code |-> 200,
              body |-> [message |-> "User registered successfully",
                        user_id |-> existing_user.id],
              users |-> [i \in DOMAIN users |->
                            IF users[i].email = user_data.email
                            THEN [users[i] EXCEPT !.role = user_data.role]
                            ELSE users[i]]]
        ELSE [code |-> 200,
              body |-> [message |-> "User registered successfully", user_id |-> user.id],
              users |-> Append(users, user)]

register(user_data) ==
    LET EmailIs(u) == u.email = user_data.email
        existing_user == find_one(users, EmailIs)
        user == [id |-> uuid4("u", Len(users) + 1), email |-> user_data.email,
                 name |-> user_data.name, role |-> user_data.role,
                 created_at |-> now, is_active |-> TRUE,
                 password |-> hash_password(user_data.password)]
    IN  IF existing_user # None
        THEN HTTPException(400, "Email already registered") @@ [users |-> users]
        ELSE [code |-> 200,
              body |-> [message |-> "User registered successfully", user_id |-> user.id],
              users |-> Append(users, user)]

\* register up to its first await: the lookup of the email
register_find_one(user_data) ==
    LET EmailIs(u) == u.email = user_data.email
    IN  find_one(users, EmailIs)

\* register from its resumption after the lookup: the insert and the response
register_insert_one(user_data) ==
    LET user == [id |-> uuid4("u", Len(users) + 1), email |-> user_data.email,
                 name |-> user_data.name, role |-> user_data.role,
                 created_at |-> now, is_active |-> TRUE,
                 password |-> hash_password(user_data.password)]
    IN  [code |-> 200,
         body |-> [message |-> "User registered successfully", user_id |-> user.id],
         users |-> Append(users, user)]

\* login that tells an unknown email from a wrong secret
login_UnknownEmailIs404(login_data) ==
    LET EmailIs(u) == u.email = login_data.email
        user == find_one(users, EmailIs)
    IN  IF user = None THEN HTTPException(404, "User not found")
        ELSE IF ~verify_password(login_data.password, user.password)
        THEN HTTPException(401, "Invalid credentials")
        ELSE [code |-> 200,
              body |-> [access_token |-> create_jwt_token(user.id, user.role),
                        token_type |-> "bearer", user |-> User(user)]]

login(login_data) ==
    LET EmailIs(u) == u.email = login_data.email
        user == find_one(users, EmailIs)
    IN  IF user = None \/ ~verify_password(login_data.password, user.password)
        THEN HTTPException(401, "Invalid credentials")
        ELSE [code |-> 200,
              body |-> [access_token |-> create_jwt_token(user.id, user.role),
                        token_type |-> "bearer", user |-> User(user)]]

get_me(header) ==
    LET auth == get_current_user(header) IN
    IF ~auth.ok THEN HTTPException(auth.code, auth.detail)
    ELSE [code |-> 200, body |-> User(auth.user)]

-----------------------------------------------------------------------------
(* Patient management routes *)

\* create_patient with the doctor role let through
create_patient_DoctorAllowed(patient_data, header) ==
    LET auth == get_current_user(header)
        current_user == auth.user
        patient == Patient([created_by |-> current_user.id] @@ PatientCreate(patient_data),
                           Len(patients) + 1)
    IN  IF ~auth.ok THEN HTTPException(auth.code, auth.detail) @@ [patients |-> patients]
        ELSE IF current_user.role \notin {FRONT_DESK, SUPER_ADMIN, DOCTOR}
        THEN HTTPException(403, "Not authorized to create patients")
                 @@ [patients |-> patients]
        ELSE [code |-> 200, body |-> patient, patients |-> Append(patients, patient)]

create_patient(patient_data, header) ==
    LET auth == get_current_user(header)
        current_user == auth.user
        patient == Patient([created_by |-> current_user.id] @@ PatientCreate(patient_data),
                           Len(patients) + 1)
    IN  IF ~auth.ok THEN HTTPException(auth.code, auth.detail) @@ [patients |-> patients]
        ELSE IF current_user.role \notin {FRONT_DESK, SUPER_ADMIN}
        THEN HTTPException(403, "Not authorized to create patients")
                 @@ [patients |-> patients]
        ELSE [code |-> 200, body |-> patient, patients |-> Append(patients, patient)]

\* get_patients that returns every record with the caller's email
get_patients_EveryMatch(header) ==
    LET auth == get_current_user(header)
        current_user == auth.user
        OwnEmail(p) == p.email = current_user.email
    IN  IF ~auth.ok THEN HTTPException(auth.code, auth.detail)
        ELSE IF current_user.role = PATIENT
        THEN [code |-> 200, body |-> find(patients, OwnEmail)]
        ELSE [code |-> 200, body |-> patients]

get_patients(header) ==
    LET auth == get_current_user(header)
        current_user == auth.user
        OwnEmail(p) == p.email = current_user.email
        patient == find_one(patients, OwnEmail)
    IN  IF ~auth.ok THEN HTTPException(auth.code, auth.detail)
        ELSE IF current_user.role = PATIENT
        THEN [code |-> 200, body |-> IF patient # None THEN <<patient>> ELSE <<>>]
        ELSE [code |-> 200, body |-> patients]

get_patient(patient_id, header) ==
    LET auth == get_current_user(header)
        current_user == auth.user
        IdIs(p) == p.id = patient_id
        patient == find_one(patients, IdIs)
    IN  IF ~auth.ok THEN HTTPException(auth.code, auth.detail)
        ELSE IF patient = None THEN HTTPException(404, "Patient not found")
        ELSE IF current_user.role = PATIENT /\ patient.email # current_user.email
        THEN HTTPException(403, "Not authorized")
        ELSE [code |-> 200, body |-> patient]

\* update_one({"id": id}, {"$set": update_data}): the first matching document
update_one(coll, Match(_), update_data) ==
    LET hits == {i \in DOMAIN coll : Match(coll[i])}
    IN  IF hits = {} THEN [matched_count |-> 0, coll |-> coll]
        ELSE [matched_count |-> 1,
              coll |-> [coll EXCEPT ![Min(hits)] = update_data @@ @]]

\* update_patient_status that refuses to move a record out of completed
update_patient_status_CompletedIsFinal(patient_id, status, assigned_doctor_id, header) ==
    LET auth == get_current_user(header)
        current_user == auth.user
        IdIs(p) == p.id = patient_id
        IsCompleted(p) == p.id = patient_id /\ p.status = COMPLETED
        update_data ==
            IF assigned_doctor_id \notin {NoneValue, EmptyString}
            THEN [status |-> status, updated_at |-> now,
                  assigned_doctor_id |-> assigned_doctor_id]
            ELSE [status |-> status, updated_at |-> now]
        result == update_one(patients, IdIs, update_data)
    IN  IF ~auth.ok THEN HTTPException(auth.code, auth.detail) @@ [patients |-> patients]
        ELSE IF current_user.role \notin {FRONT_DESK, DOCTOR, SUPER_ADMIN}
        THEN HTTPException(403, "Not authorized") @@ [patients |-> patients]
        ELSE IF find_one(patients, IsCompleted) # None /\ status # COMPLETED
        THEN HTTPException(400, "Invalid transition") @@ [patients |-> patients]
        ELSE IF result.matched_count = 0
        THEN HTTPException(404, "Patient not found") @@ [patients |-> result.coll]
        ELSE [code |-> 200, body |-> [message |-> "Patient status updated successfully"],
              patients |-> result.coll]

\* update_patient_status with the role check after the write
update_patient_status_CheckAfterWrite(patient_id, status, assigned_doctor_id, header) ==
    LET auth == get_current_user(header)
        current_user == auth.user
        IdIs(p) == p.id = patient_id
        update_data ==
            IF assigned_doctor_id \notin {NoneValue, EmptyString}
            THEN [status |-> status, updated_at |-> now,
                  assigned_doctor_id |-> assigned_doctor_id]
            ELSE [status |-> status, updated_at |-> now]
        result == update_one(patients, IdIs, update_data)
    IN  IF ~auth.ok THEN HTTPException(auth.code, auth.detail) @@ [patients |-> patients]
        ELSE IF result.matched_count = 0
        THEN HTTPException(404, "Patient not found") @@ [patients |-> result.coll]
        ELSE IF current_user.role \notin {FRONT_DESK, DOCTOR, SUPER_ADMIN}
        THEN HTTPException(403, "Not authorized") @@ [patients |-> result.coll]
        ELSE [code |-> 200, body |-> [message |-> "Patient status updated successfully"],
              patients |-> result.coll]

\* update_patient_status that never looks at matched_count
update_patient_status_NoMatchCheck(patient_id, status, assigned_doctor_id, header) ==
    LET auth == get_current_user(header)
        current_user == auth.user
        IdIs(p) == p.id = patient_id
        update_data ==
            IF assigned_doctor_id \notin {NoneValue, EmptyString}
            THEN [status |-> status, updated_at |-> now,
                  assigned_doctor_id |-> assigned_doctor_id]
            ELSE [status |-> status, updated_at |-> now]
        result == update_one(patients, IdIs, update_data)
    IN  IF ~auth.ok THEN HTTPException(auth.code, auth.detail) @@ [patients |-> patients]
        ELSE IF current_user.role \notin {FRONT_DESK, DOCTOR, SUPER_ADMIN}
        THEN HTTPException(403, "Not authorized") @@ [patients |-> patients]
        ELSE [code |-> 200, body |-> [message |-> "Patient status updated successfully"],
              patients |-> result.coll]

\* update_patient_status that writes the doctor id of the request as it comes
update_patient_status_ClearsDoctor(patient_id, status, assigned_doctor_id, header) ==
    LET auth == get_current_user(header)
        current_user == auth.user
        IdIs(p) == p.id = patient_id
        update_data ==
            [status |-> status, updated_at |-> now,
             assigned_doctor_id |-> assigned_doctor_id]
        result == update_one(patients, IdIs, update_data)
    IN  IF ~auth.ok THEN HTTPException(auth.code, auth.detail) @@ [patients |-> patients]
        ELSE IF current_user.role \notin {FRONT_DESK, DOCTOR, SUPER_ADMIN}
        THEN HTTPException(403, "Not authorized") @@ [patients |-> patients]
        ELSE IF result.matched_count = 0
        THEN HTTPException(404, "Patient not found") @@ [patients |-> result.coll]
        ELSE [code |-> 200, body |-> [message |-> "Patient status updated successfully"],
              patients |-> result.coll]

update_patient_status(patient_id, status, assigned_doctor_id, header) ==
    LET auth == get_current_user(header)
        current_user == auth.user
        IdIs(p) == p.id = patient_id
        update_data ==
            IF assigned_doctor_id \notin {NoneValue, EmptyString}
            THEN [status |-> status, updated_at |-> now,
                  assigned_doctor_id |-> assigned_doctor_id]
            ELSE [status |-> status, updated_at |-> now]
        result == update_one(patients, IdIs, update_data)
    IN  IF ~auth.ok THEN HTTPException(auth.code, auth.detail) @@ [patients |-> patients]
        ELSE IF current_user.role \notin {FRONT_DESK, DOCTOR, SUPER_ADMIN}
        THEN HTTPException(403, "Not authorized") @@ [patients |-> patients]
        ELSE IF result.matched_count = 0
        THEN HTTPException(404, "Patient not found") @@ [patients |-> result.coll]
        ELSE [code |-> 200, body |-> [message |-> "Patient status updated successfully"],
              patients |-> result.coll]

-----------------------------------------------------------------------------
(* SOAP notes routes *)

\* create_soap_notes that keeps the author a request body names
create_soap_notes_AuthorFromBody(soap_data, header) ==
    LET auth == get_current_user(header)
        current_user == auth.user
        notes == SOAPNotes(soap_data @@ [doctor_id |-> current_user.id],
                           Len(soap_notes) + 1)
        IdIs(p) == p.id = soap_data.patient_id
        result == update_one(patients, IdIs,
                             [status |-> COMPLETED, updated_at |-> now])
    IN  IF ~auth.ok
        THEN HTTPException(auth.code, auth.detail)
                 @@ [soap_notes |-> soap_notes, patients |-> patients]
        ELSE IF current_user.role \notin {DOCTOR, SUPER_ADMIN}
        THEN HTTPException(403, "Only doctors can create SOAP notes")
                 @@ [soap_notes |-> soap_notes, patients |-> patients]
        ELSE [code |-> 200, body |-> notes,
              soap_notes |-> Append(soap_notes, notes), patients |-> result.coll]

\* create_soap_notes that replaces the note the patient already has
create_soap_notes_ReplacesNote(soap_data, header) ==
    LET auth == get_current_user(header)
        current_user == auth.user
        notes == SOAPNotes([doctor_id |-> current_user.id] @@ SOAPNotesCreate(soap_data),
                           Len(soap_notes) + 1)
        IdIs(p) == p.id = soap_data.patient_id
        ForPatient(n) == n.patient_id = soap_data.patient_id
        result == update_one(patients, IdIs,
                             [status |-> COMPLETED, updated_at |-> now])
    IN  IF ~auth.ok
        THEN HTTPException(auth.code, auth.detail)
                 @@ [soap_notes |-> soap_notes, patients |-> patients]
        ELSE IF current_user.role \notin {DOCTOR, SUPER_ADMIN}
        THEN HTTPException(403, "Only doctors can create SOAP notes")
                 @@ [soap_notes |-> soap_notes, patients |-> patients]
        ELSE [code |-> 200, body |-> notes,
              soap_notes |->
                  IF find_one(soap_notes, ForPatient) = None
                  THEN Append(soap_notes, notes)
                  ELSE [i \in DOMAIN soap_notes |->
                           IF soap_notes[i].patient_id = soap_data.patient_id
                           THEN notes ELSE soap_notes[i]],
              patients |-> result.coll]

\* create_soap_notes without the completion write
create_soap_notes_NoCompletion(soap_data, header) ==
    LET auth == get_current_user(header)
        current_user == auth.user
        notes == SOAPNotes([doctor_id |-> current_user.id] @@ SOAPNotesCreate(soap_data),
                           Len(soap_notes) + 1)
    IN  IF ~auth.ok
        THEN HTTPException(auth.code, auth.detail)
                 @@ [soap_notes |-> soap_notes, patients |-> patients]
        ELSE IF current_user.role \notin {DOCTOR, SUPER_ADMIN}
        THEN HTTPException(403, "Only doctors can create SOAP notes")
                 @@ [soap_notes |-> soap_notes, patients |-> patients]
        ELSE [code |-> 200, body |-> notes,
              soap_notes |-> Append(soap_notes, notes), patients |-> patients]

\* create_soap_notes that completes the patient only when it was consulting
create_soap_notes_CompleteIfConsulting(soap_data, header) ==
    LET auth == get_current_user(header)
        current_user == auth.user
        notes == SOAPNotes([doctor_id |-> current_user.id] @@ SOAPNotesCreate(soap_data),
                           Len(soap_notes) + 1)
        IdIs(p) == p.id = soap_data.patient_id /\ p.status = CONSULTING
        result == update_one(patients, IdIs,
                             [status |-> COMPLETED, updated_at |-> now])
    IN  IF ~auth.ok
        THEN HTTPException(auth.code, auth.detail)
                 @@ [soap_notes |-> soap_notes, patients |-> patients]
        ELSE IF current_user.role \notin {DOCTOR, SUPER_ADMIN}
        THEN HTTPException(403, "Only doctors can create SOAP notes")
                 @@ [soap_notes |-> soap_notes, patients |-> patients]
        ELSE [code |-> 200, body |-> notes,
              soap_notes |-> Append(soap_notes, notes), patients |-> result.coll]

\* create_soap_notes with the role check after the insert
create_soap_notes_CheckAfterInsert(soap_data, header) ==
    LET auth == get_current_user(header)
        current_user == auth.user
        notes == SOAPNotes([doctor_id |-> current_user.id] @@ SOAPNotesCreate(soap_data),
                           Len(soap_notes) + 1)
        IdIs(p) == p.id = soap_data.patient_id
        result == update_one(patients, IdIs,
                             [status |-> COMPLETED, updated_at |-> now])
    IN  IF ~auth.ok
        THEN HTTPException(auth.code, auth.detail)
                 @@ [soap_notes |-> soap_notes, patients |-> patients]
        ELSE IF current_user.role \notin {DOCTOR, SUPER_ADMIN}
        THEN HTTPException(403, "Only doctors can create SOAP notes")
                 @@ [soap_notes |-> Append(soap_notes, notes), patients |-> patients]
        ELSE [code |-> 200, body |-> notes,
              soap_notes |-> Append(soap_notes, notes), patients |-> result.coll]

create_soap_notes(soap_data, header) ==
    LET auth == get_current_user(header)
        current_user == auth.user
        notes == SOAPNotes([doctor_id |-> current_user.id] @@ SOAPNotesCreate(soap_data),
                           Len(soap_notes) + 1)
        IdIs(p) == p.id = soap_data.patient_id
        result == update_one(patients, IdIs,
                             [status |-> COMPLETED, updated_at |-> now])
    IN  IF ~auth.ok
        THEN HTTPException(auth.code, auth.detail)
                 @@ [soap_notes |-> soap_notes, patients |-> patients]
        ELSE IF current_user.role \notin {DOCTOR, SUPER_ADMIN}
        THEN HTTPException(403, "Only doctors can create SOAP notes")
                 @@ [soap_notes |-> soap_notes, patients |-> patients]
        ELSE [code |-> 200, body |-> notes,
              soap_notes |-> Append(soap_notes, notes), patients |-> result.coll]

\* get_patient_soap_notes without the ownership check
get_patient_soap_notes_NoOwnerCheck(patient_id, header) ==
    LET auth == get_current_user(header)
        IdIs(p) == p.id = patient_id
        patient == find_one(patients, IdIs)
        ForPatient(note) == note.patient_id = patient_id
    IN  IF ~auth.ok THEN HTTPException(auth.code, auth.detail)
        ELSE IF patient = None THEN HTTPException(404, "Patient not found")
        ELSE [code |-> 200, body |-> find(soap_notes, ForPatient)]

get_patient_soap_notes(patient_id, header) ==
    LET auth == get_current_user(header)
        current_user == auth.user
        IdIs(p) == p.id = patient_id
        patient == find_one(patients, IdIs)
        ForPatient(note) == note.patient_id = patient_id
    IN  IF ~auth.ok THEN HTTPException(auth.code, auth.detail)
        ELSE IF patient = None THEN HTTPException(404, "Patient not found")
        ELSE IF current_user.role = PATIENT /\ patient.email # current_user.email
        THEN HTTPException(403, "Not authorized")
        ELSE [code |-> 200, body |-> find(soap_notes, ForPatient)]

-----------------------------------------------------------------------------
(* The write handlers from await to await *)

\* update_patient_status up to "await db.patients.update_one": authentication
\* and the role check
update_patient_status_check(header) ==
    LET auth == get_current_user(header)
    IN  IF ~auth.ok THEN HTTPException(auth.code, auth.detail)
        ELSE IF auth.user.role \notin {FRONT_DESK, DOCTOR, SUPER_ADMIN}
        THEN HTTPException(403, "Not authorized")
        ELSE [code |-> 200, body |-> <<>>]

\* update_patient_status from the update_one on: the write and the response
update_patient_status_update_one(patient_id, status, assigned_doctor_id) ==
    LET IdIs(p) == p.id = patient_id
        update_data ==
            IF assigned_doctor_id \notin {NoneValue, EmptyString}
            THEN [status |-> status, updated_at |-> now,
                  assigned_doctor_id |-> assigned_doctor_id]
            ELSE [status |-> status, updated_at |-> now]
        result == update_one(patients, IdIs, update_data)
    IN  IF result.matched_count = 0
        THEN HTTPException(404, "Patient not found") @@ [patients |-> result.coll]
        ELSE [code |-> 200, body |-> [message |-> "Patient status updated successfully"],
              patients |-> result.coll]

\* the first part of create_soap_notes that also completes the patient
create_soap_notes_insert_one_Completes(soap_data, header) ==
    create_soap_notes(soap_data, header)

\* create_soap_notes up to "await db.patients.update_one": authentication, the
\* role check and the insert of the note
create_soap_notes_insert_one(soap_data, header) ==
    LET auth == get_current_user(header)
        current_user == auth.user
        notes == SOAPNotes([doctor_id |-> current_user.id] @@ SOAPNotesCreate(soap_data),
                           Len(soap_notes) + 1)
    IN  IF ~auth.ok
        THEN HTTPException(auth.code, auth.detail)
                 @@ [soap_notes |-> soap_notes, patients |-> patients]
        ELSE IF current_user.role \notin {DOCTOR, SUPER_ADMIN}
        THEN HTTPException(403, "Only doctors can create SOAP notes")
                 @@ [soap_notes |-> soap_notes, patients |-> patients]
        ELSE [code |-> 200, body |-> notes,
              soap_notes |-> Append(soap_notes, notes), patients |-> patients]

\* the completion write that applies only to a consulting patient
create_soap_notes_update_one_IfConsulting(soap_data) ==
    LET IdIs(p) == p.id = soap_data.patient_id /\ p.status = CONSULTING
    IN  [code |-> 200,
         patients |-> update_one(patients, IdIs,
                                 [status |-> COMPLETED, updated_at |-> now]).coll]

\* create_soap_notes from the update_one on: the completion write
create_soap_notes_update_one(soap_data) ==
    LET IdIs(p) == p.id = soap_data.patient_id
    IN  [code |-> 200,
         patients |-> update_one(patients, IdIs,
                                 [status |-> COMPLETED, updated_at |-> now]).coll]

-----------------------------------------------------------------------------
(* User management routes *)

\* get_users with the front-desk role let through
get_users_FrontDeskAllowed(header) ==
    LET auth == get_current_user(header)
    IN  IF ~auth.ok THEN HTTPException(auth.code, auth.detail)
        ELSE IF auth.user.role \notin {SUPER_ADMIN, FRONT_DESK}
        THEN HTTPException(403, "Only super admin can view all users")
        ELSE [code |-> 200, body |-> [i \in DOMAIN users |-> User(users[i])]]

get_users(header) ==
    LET auth == get_current_user(header)
    IN  IF ~auth.ok THEN HTTPException(auth.code, auth.detail)
        ELSE IF auth.user.role # SUPER_ADMIN
        THEN HTTPException(403, "Only super admin can view all users")
        ELSE [code |-> 200, body |-> [i \in DOMAIN users |-> User(users[i])]]

get_doctors(header) ==
    LET auth == get_current_user(header)
        IsDoctor(u) == u.role = DOCTOR
        doctors == find(users, IsDoctor)
    IN  IF ~auth.ok THEN HTTPException(auth.code, auth.detail)
        ELSE [code |-> 200, body |-> [i \in DOMAIN doctors |-> User(doctors[i])]]

-----------------------------------------------------------------------------
(* Appointment routes *)

create_appointment(appointment_data, header) ==
    LET auth == get_current_user(header)
        appointment == Appointment(appointment_data, Len(appointments) + 1)
    IN  IF ~auth.ok
        THEN HTTPException(auth.code, auth.detail) @@ [appointments |-> appointments]
        ELSE [code |-> 200, body |-> appointment,
              appointments |-> Append(appointments, appointment)]

get_appointments(header) ==
    LET auth == get_current_user(header)
        current_user == auth.user
        OwnEmail(p) == p.email = current_user.email
        patient == find_one(patients, OwnEmail)
        Query(a) ==
            IF current_user.role = PATIENT
            THEN (patient # None => a.patient_id = patient.id)
            ELSE IF current_user.role = DOCTOR THEN a.doctor_id = current_user.id
            ELSE TRUE
    IN  IF ~auth.ok THEN HTTPException(auth.code, auth.detail)
        ELSE [code |-> 200, body |-> find(appointments, Query)]

-----------------------------------------------------------------------------
(* Dashboard stats *)

\* get_dashboard_stats that counts every record not yet completed as registered
get_dashboard_stats_OpenAsRegistered(header) ==
    LET auth == get_current_user(header)
        current_user == auth.user
        Everything(p) == TRUE
        IsOpen(p) == p.status # COMPLETED
        IsConsulting(p) == p.status = CONSULTING
        IsCompleted(p) == p.status = COMPLETED
        Assigned(p) == p.assigned_doctor_id = current_user.id
        AssignedConsulting(p) ==
            p.assigned_doctor_id = current_user.id /\ p.status = CONSULTING
    IN  IF ~auth.ok THEN HTTPException(auth.code, auth.detail)
        ELSE IF current_user.role \in {SUPER_ADMIN, FRONT_DESK}
        THEN [code |-> 200,
              body |-> [total_patients |-> count_documents(patients, Everything),
                        registered_patients |-> count_documents(patients, IsOpen),
                        consulting_patients |-> count_documents(patients, IsConsulting),
                        completed_patients |-> count_documents(patients, IsCompleted)]]
        ELSE IF current_user.role = DOCTOR
        THEN [code |-> 200,
              body |-> [assigned_patients |-> count_documents(patients, Assigned),
                        consulting_patients |->
                            count_documents(patients, AssignedConsulting)]]
        ELSE [code |-> 200, body |-> <<>>]

get_dashboard_stats(header) ==
    LET auth == get_current_user(header)
        current_user == auth.user
        Everything(p) == TRUE
        IsRegistered(p) == p.status = REGISTERED
        IsConsulting(p) == p.status = CONSULTING
        IsCompleted(p) == p.status = COMPLETED
        Assigned(p) == p.assigned_doctor_id = current_user.id
        AssignedConsulting(p) ==
            p.assigned_doctor_id = current_user.id /\ p.status = CONSULTING
    IN  IF ~auth.ok THEN HTTPException(auth.code, auth.detail)
        ELSE IF current_user.role \in {SUPER_ADMIN, FRONT_DESK}
        THEN [code |-> 200,
              body |-> [total_patients |-> count_documents(patients, Everything),
                        registered_patients |-> count_documents(patients, IsRegistered),
                        consulting_patients |-> count_documents(patients, IsConsulting),
                        completed_patients |-> count_documents(patients, IsCompleted)]]
        ELSE IF current_user.role = DOCTOR
        THEN [code |-> 200,
              body |-> [assigned_patients |-> count_documents(patients, Assigned),
                        consulting_patients |->
                            count_documents(patients, AssignedConsulting)]]
        ELSE [code |-> 200, body |-> <<>>]


\* the k-th of the four counts of get_dashboard_stats for an admin-class caller
get_dashboard_stats_count(k) ==
    LET Everything(p) == TRUE
        IsRegistered(p) == p.status = REGISTERED
        IsConsulting(p) == p.status = CONSULTING
        IsCompleted(p) == p.status = COMPLETED
    IN  CASE k = 1 -> count_documents(patients, Everything)
          [] k = 2 -> count_documents(patients, IsRegistered)
          [] k = 3 -> count_documents(patients, IsConsulting)
          [] OTHER -> count_documents(patients, IsCompleted)

\* the stats dictionary built from the four counts
get_dashboard_stats_body(counts) ==
    [total_patients |-> counts[1], registered_patients |-> counts[2],
     consulting_patients |-> counts[3], completed_patients |-> counts[4]]

-----------------------------------------------------------------------------
(* Request inputs *)

NewEmail == "newuser@example.com"
GhostId == "no-such-id"

SampleEmails == {u.email : u \in Range(sample_users)}

UserCreateInputs ==
    [email : {"admin@clinic.com", NewEmail}, password : {"secret"},
     name : {"New User"}, role : UserRole]

\* the password a client of that email would type
KnownPassword(email) ==
    CASE email = "admin@clinic.com" -> "admin123"
      [] email = "frontdesk@clinic.com" -> "front123"
      [] email = "doctor@clinic.com" -> "doctor123"
      [] email = "patient@example.com" -> "patient123"
      [] OTHER -> "secret"

UserLoginInputs ==
    {[email |-> e, password |-> pw] :
        e \in SampleEmails \cup {NewEmail}, pw \in {"wrong"}}
    \cup {[email |-> e, password |-> KnownPassword(e)] : e \in SampleEmails \cup {NewEmail}}

PatientCreateInputs == [email : {"patient@example.com", NewEmail}]

PatientIdInputs == {p.id : p \in Range(patients)} \cup {GhostId}

DoctorIdInputs == {NoneValue, EmptyString, sample_users[3].id}

SOAPNotesCreateInputs ==
    [patient_id : PatientIdInputs, subjective : {"S"}, objective : {"O"},
     assessment : {"A"}, plan : {"P"}]

AppointmentCreateInputs ==
    [patient_id : PatientIdInputs, doctor_id : {sample_users[1].id, sample_users[3].id},
     appointment_date : {TOKEN_TTL}, notes : {""}]

-----------------------------------------------------------------------------
(* The state machine *)

StatusCodes == {200, 400, 401, 403, 404}

\* the clients that can have a request in progress, and a client with none
Clients == 1..MaxClients
Idle == [op |-> "idle"]

Init ==
    /\ users = sample_users
    /\ patients = <<sample_patient>>
    /\ soap_notes = <<>>
    /\ appointments = <<>>
    /\ now = TickSeconds
    /\ tokens = {}
    /\ bearer_status \in {401, 403}
    /\ inflight = [c \in Clients |-> Idle]

Register ==
    \E user_data \in UserCreateInputs :
        LET r == register(user_data) IN
        /\ r.code = 200 => Len(users) < MaxUsers
        /\ users' = r.users
        /\ UNCHANGED <<patients, soap_notes, appointments, now, tokens, bearer_status, inflight>>

\* register, first step: the handler runs to "await db.users.find_one(...)";
\* with the email taken it answers 400 at once, else it is suspended
RegisterLookup ==
    \E c \in Clients, user_data \in UserCreateInputs :
        /\ inflight[c] = Idle
        /\ Len(users) + Cardinality({d \in Clients : inflight[d] # Idle}) < MaxUsers
        /\ inflight' = IF register_find_one(user_data) # None THEN inflight
                        ELSE [inflight EXCEPT
                                 ![c] = [op |-> "register", user_data |-> user_data]]
        /\ UNCHANGED <<db, now, tokens, bearer_status>>

\* register, second step: the suspended handler resumes and inserts
RegisterInsert ==
    \E c \in Clients :
        /\ inflight[c] # Idle
        /\ inflight[c].op = "register"
        /\ users' = register_insert_one(inflight[c].user_data).users
        /\ inflight' = [inflight EXCEPT ![c] = Idle]
        /\ UNCHANGED <<patients, soap_notes, appointments, now, tokens, bearer_status>>

\* a request is in progress: its handler is suspended at an await
Pending(c) == inflight[c].op \notin {"idle", "response"}

\* client c's handler is suspended with request req; the requests in progress
\* at that moment and req have overlapped
Suspend(c, req) ==
    [d \in Clients |->
        IF d = c THEN req @@ [during |-> {e \in Clients \ {c} : Pending(e)}]
        ELSE IF Pending(d) /\ "during" \in DOMAIN inflight[d]
        THEN [inflight[d] EXCEPT !.during = @ \cup {c}]
        ELSE inflight[d]]

\* client c's handler has ended; the response is on its way to the client
Respond(c, code) ==
    [inflight EXCEPT ![c] = [op |-> "response", of |-> @.op, code |-> code,
                             patient_id |-> @.patient_id, status |-> @.status,
                             during |-> @.during]]

\* update_patient_status, first step: authentication and the role check; a
\* refused request is answered at once
UpdatePatientStatusBegin ==
    \E c \in Clients, header \in Headers, patient_id \in PatientIdInputs,
       status \in PatientStatus, assigned_doctor_id \in DoctorIdInputs :
        /\ inflight[c] = Idle
        /\ inflight' = IF update_patient_status_check(header).code # 200 THEN inflight
                        ELSE Suspend(c, [op |-> "update_patient_status",
                                         patient_id |-> patient_id, status |-> status,
                                         assigned_doctor_id |-> assigned_doctor_id])
        /\ UNCHANGED <<db, now, tokens, bearer_status>>

\* update_patient_status, second step: the update_one is applied
UpdatePatientStatusWrite ==
    \E c \in Clients :
        /\ inflight[c].op = "update_patient_status"
        /\ LET r == update_patient_status_update_one(inflight[c].patient_id,
                         inflight[c].status, inflight[c].assigned_doctor_id)
           IN  /\ patients' = r.patients
               /\ inflight' = Respond(c, r.code)
        /\ UNCHANGED <<users, soap_notes, appointments, now, tokens, bearer_status>>

\* create_soap_notes, first step: authentication, the role check and the insert
CreateSoapNotesInsert ==
    \E c \in Clients, header \in Headers, soap_data \in SOAPNotesCreateInputs :
        LET r == create_soap_notes_insert_one(soap_data, header) IN
        /\ inflight[c] = Idle
        /\ Len(r.soap_notes) <= MaxNotes
        /\ soap_notes' = r.soap_notes
        /\ patients' = r.patients
        /\ inflight' = IF r.code # 200 THEN inflight
                        ELSE Suspend(c, [op |-> "create_soap_notes",
                                         soap_data |-> soap_data,
                                         patient_id |-> soap_data.patient_id,
                                         status |-> COMPLETED])
        /\ UNCHANGED <<users, appointments, now, tokens, bearer_status>>

\* create_soap_notes, second step: the completion write is applied
CreateSoapNotesComplete ==
    \E c \in Clients :
        /\ inflight[c].op = "create_soap_notes"
        /\ LET r == create_soap_notes_update_one(inflight[c].soap_data)
           IN  /\ patients' = r.patients
               /\ inflight' = Respond(c, r.code)
        /\ UNCHANGED <<users, soap_notes, appointments, now, tokens, bearer_status>>

\* create_soap_notes stops after the insert: the process dies or update_one
\* raises, and the request ends as an unhandled failure
CreateSoapNotesAbort ==
    \E c \in Clients :
        /\ inflight[c].op = "create_soap_notes"
        /\ inflight' = Respond(c, 500)
        /\ UNCHANGED <<db, now, tokens, bearer_status>>

\* get_dashboard_stats for an admin-class caller, first step: authentication
\* and the role test; the handler is suspended at its first count
GetDashboardStatsBegin ==
    \E c \in Clients, header \in Headers :
        /\ inflight[c] = Idle
        /\ get_current_user(header).ok
        /\ get_current_user(header).user.role \in {SUPER_ADMIN, FRONT_DESK}
        /\ inflight' = Suspend(c, [op |-> "get_dashboard_stats", counts |-> <<>>])
        /\ UNCHANGED <<db, now, tokens, bearer_status>>

\* get_dashboard_stats, one step per "await db.patients.count_documents(...)";
\* after the fourth count the response is built
GetDashboardStatsCount ==
    \E c \in Clients :
        /\ inflight[c].op = "get_dashboard_stats"
        /\ LET counts == Append(inflight[c].counts,
                                get_dashboard_stats_count(Len(inflight[c].counts) + 1))
           IN  inflight' =
                   IF Len(counts) < 4
                   THEN [inflight EXCEPT ![c].counts = counts]
                   ELSE [inflight EXCEPT ![c] =
                            [op |-> "response", of |-> "get_dashboard_stats",
                             code |-> 200, body |-> get_dashboard_stats_body(counts),
                             during |-> @.during]]
        /\ UNCHANGED <<db, now, tokens, bearer_status>>

\* a client that logs in keeps the token of the response
Login ==
    \E login_data \in UserLoginInputs :
        LET r == login(login_data) IN
        /\ r.code = 200 =>
              \/ r.body.access_token \in tokens
              \/ Cardinality(tokens) < MaxTokens
        /\ tokens' = IF r.code = 200 THEN tokens \cup {r.body.access_token} ELSE tokens
        /\ UNCHANGED <<db, now, bearer_status, inflight>>

\* a client discards a token it holds
Logout ==
    \E t \in tokens :
        /\ tokens' = tokens \ {t}
        /\ UNCHANGED <<db, now, bearer_status, inflight>>

\* time passes
Tick ==
    /\ now < (MaxTicks + 1) * TickSeconds
    /\ now' = now + TickSeconds
    /\ UNCHANGED <<db, tokens, bearer_status, inflight>>

\* the active flag of an identity is cleared in db.users; no endpoint writes
\* the flag, so this is a write by whoever administers the database
Deactivate ==
    \E i \in DOMAIN users :
        /\ users[i].is_active
        /\ users' = [users EXCEPT ![i].is_active = FALSE]
        /\ UNCHANGED <<patients, soap_notes, appointments, now, tokens, bearer_status, inflight>>

GetMe ==
    \E header \in Headers :
        /\ get_me(header).code \in StatusCodes
        /\ UNCHANGED vars

CreatePatient ==
    \E header \in Headers, patient_data \in PatientCreateInputs :
        LET r == create_patient(patient_data, header) IN
        /\ r.code = 200 => Len(patients) < MaxPatients
        /\ patients' = r.patients
        /\ UNCHANGED <<users, soap_notes, appointments, now, tokens, bearer_status, inflight>>

GetPatients ==
    \E header \in Headers :
        /\ get_patients(header).code \in StatusCodes
        /\ UNCHANGED vars

GetPatient ==
    \E header \in Headers, patient_id \in PatientIdInputs :
        /\ get_patient(patient_id, header).code \in StatusCodes
        /\ UNCHANGED vars

UpdatePatientStatus ==
    \E header \in Headers, patient_id \in PatientIdInputs,
       status \in PatientStatus, assigned_doctor_id \in DoctorIdInputs :
        LET r == update_patient_status(patient_id, status, assigned_doctor_id, header) IN
        /\ patients' = r.patients
        /\ UNCHANGED <<users, soap_notes, appointments, now, tokens, bearer_status, inflight>>

CreateSoapNotes ==
    \E header \in Headers, soap_data \in SOAPNotesCreateInputs :
        LET r == create_soap_notes(soap_data, header) IN
        /\ Len(r.soap_notes) <= MaxNotes
        /\ soap_notes' = r.soap_notes
        /\ patients' = r.patients
        /\ UNCHANGED <<users, appointments, now, tokens, bearer_status, inflight>>

GetPatientSoapNotes ==
    \E header \in Headers, patient_id \in PatientIdInputs :
        /\ get_patient_soap_notes(patient_id, header).code \in StatusCodes
        /\ UNCHANGED vars

GetUsers ==
    \E header \in Headers :
        /\ get_users(header).code \in StatusCodes
        /\ UNCHANGED vars

GetDoctors ==
    \E header \in Headers :
        /\ get_doctors(header).code \in StatusCodes
        /\ UNCHANGED vars

CreateAppointment ==
    \E header \in Headers, appointment_data \in AppointmentCreateInputs :
        LET r == create_appointment(appointment_data, header) IN
        /\ r.code = 200 => Len(appointments) < MaxAppointments
        /\ appointments' = r.appointments
        /\ UNCHANGED <<users, patients, soap_notes, now, tokens, bearer_status, inflight>>

GetAppointments ==
    \E header \in Headers :
        /\ get_appointments(header).code \in StatusCodes
        /\ UNCHANGED vars

GetDashboardStats ==
    \E header \in Headers :
        /\ get_dashboard_stats(header).code \in StatusCodes
        /\ UNCHANGED vars

\* The clinic workflow: sessions, patient records, their status and their notes
Next ==
    \/ Login
    \/ Logout
    \/ GetMe
    \/ CreatePatient
    \/ GetPatients
    \/ GetPatient
    \/ UpdatePatientStatus
    \/ CreateSoapNotes
    \/ GetPatientSoapNotes
    \/ GetDashboardStats

Spec == Init /\ [][Next]_vars

\* Ownership scoping: registered identities, patient records and appointments
NextScoped ==
    \/ Register
    \/ Login
    \/ Logout
    \/ CreatePatient
    \/ GetPatients
    \/ CreateAppointment
    \/ GetAppointments

SpecScoped == Init /\ [][NextScoped]_vars

\* Sessions over time: registration, login, token expiry, identity endpoints
NextSession ==
    \/ Register
    \/ Login
    \/ Logout
    \/ Tick
    \/ GetMe
    \/ GetUsers
    \/ GetDoctors

SpecSession == Init /\ [][NextSession]_vars

\* Deactivated identities: sessions while active flags are cleared
NextActive ==
    \/ Login
    \/ Logout
    \/ Deactivate
    \/ GetMe
    \/ GetPatients

SpecActive == Init /\ [][NextActive]_vars

\* Interleaved requests: handlers advance from await to await
NextInterleaved ==
    \/ RegisterLookup
    \/ RegisterInsert
    \/ Login
    \/ Logout
    \/ GetMe
    \/ GetUsers

SpecInterleaved == Init /\ [][NextInterleaved]_vars

\* Racing status writes: status updates and note creation, await by await
NextRace ==
    \/ Login
    \/ UpdatePatientStatusBegin
    \/ UpdatePatientStatusWrite
    \/ CreateSoapNotesInsert
    \/ CreateSoapNotesComplete
    \/ CreateSoapNotesAbort

SpecRace == Init /\ [][NextRace]_vars

\* Dashboard counts while patient records are written
NextStats ==
    \/ Login
    \/ UpdatePatientStatus
    \/ GetDashboardStatsBegin
    \/ GetDashboardStatsCount

SpecStats == Init /\ [][NextStats]_vars

-----------------------------------------------------------------------------
(* Vocabulary of the properties *)

Authenticated(header) == get_current_user(header).ok
Caller(header) == get_current_user(header).user

HasId(coll, id) == \E i \in DOMAIN coll : coll[i].id = id
ById(coll, id) == coll[Min({i \in DOMAIN coll : coll[i].id = id})]

-----------------------------------------------------------------------------
(* C1: a step that stores a clinical note for an existing patient record    *)
(* leaves that record in a state where get patient, for every caller it     *)
(* answers with 200, shows status completed (and the note's author is such  *)
(* a caller), whatever the status was before the step.                      *)

AllPatientIds == {uuid4("p", n) : n \in 1..MaxPatients}
AllUserIds == {uuid4("u", n) : n \in 1..MaxUsers}

C1_ShowsCompleted(pid) ==
    \A header \in Headers :
        LET g == get_patient(pid, header) IN
        g.code = 200 => g.body.status = COMPLETED

C1_ReadableBy(pid, uid) ==
    \E header \in Headers :
        /\ Authenticated(header)
        /\ Caller(header).id = uid
        /\ get_patient(pid, header).code = 200

C1_NoteCompletesPatient ==
    [][ Len(soap_notes') > Len(soap_notes) =>
          \A pid \in AllPatientIds, uid \in AllUserIds :
              ( /\ soap_notes'[Len(soap_notes')].patient_id = pid
                /\ soap_notes'[Len(soap_notes')].doctor_id = uid
                /\ HasId(patients, pid) )
              => (C1_ShowsCompleted(pid)' /\ C1_ReadableBy(pid, uid)') ]_vars

\* a note stored for a record that had a doctor assigned, now completed and readable
C1_Witness ==
    \E i \in DOMAIN soap_notes, j \in DOMAIN patients :
        /\ patients[j].id = soap_notes[i].patient_id
        /\ patients[j].status = COMPLETED
        /\ patients[j].assigned_doctor_id # NoneValue
        /\ \E t \in tokens : get_patient(patients[j].id, Bearer(t)).code = 200

-----------------------------------------------------------------------------
(* C2: create patient answers a doctor or patient caller with 403 and       *)
(* leaves db.patients as it is; a request that adds a record comes from a   *)
(* front-desk or super-admin caller, and every record ever added names such *)
(* a caller as its creator.                                                 *)

C2_Request(header, patient_data) ==
    LET r == create_patient(patient_data, header) IN
    /\ (Authenticated(header) /\ Caller(header).role \in {DOCTOR, PATIENT})
          => (r.code = 403 /\ r.patients = patients)
    /\ r.patients # patients
          => (Authenticated(header) /\ Caller(header).role \in {FRONT_DESK, SUPER_ADMIN})

C2_CreatePatientRoles ==
    /\ \A header \in Headers, patient_data \in PatientCreateInputs :
          C2_Request(header, patient_data)
    /\ \A i \in DOMAIN patients :
          \E u \in Range(users) :
              u.id = patients[i].created_by /\ u.role \in {FRONT_DESK, SUPER_ADMIN}

C2_Witness ==
    /\ Len(patients) > 1
    /\ \E t \in tokens, patient_data \in PatientCreateInputs :
          /\ Caller(Bearer(t)).role \in {DOCTOR, PATIENT}
          /\ create_patient(patient_data, Bearer(t)).code = 403

-----------------------------------------------------------------------------
(* C3: update patient status answers a patient-role caller with 403 and     *)
(* changes no record; for a front-desk, doctor or super-admin caller and an *)
(* existing patient id it answers 200 and the record has the requested      *)
(* status afterwards.                                                       *)

C3_Request(header, patient_id, status, assigned_doctor_id) ==
    LET r == update_patient_status(patient_id, status, assigned_doctor_id, header) IN
    Authenticated(header) =>
        /\ Caller(header).role = PATIENT => (r.code = 403 /\ r.patients = patients)
        /\ Caller(header).role \in {FRONT_DESK, DOCTOR, SUPER_ADMIN} =>
              /\ r.code # 403
              /\ HasId(patients, patient_id) =>
                    /\ r.code = 200
                    /\ ById(r.patients, patient_id).status = status

C3_UpdateStatusRoles ==
    \A header \in Headers, patient_id \in PatientIdInputs,
       status \in PatientStatus, assigned_doctor_id \in DoctorIdInputs :
        C3_Request(header, patient_id, status, assigned_doctor_id)

\* a patient-role caller is refused on a record that staff have already moved
C3_Witness ==
    \E t \in tokens, i \in DOMAIN patients :
        /\ Caller(Bearer(t)).role = PATIENT
        /\ patients[i].status = CONSULTING
        /\ patients[i].assigned_doctor_id # NoneValue
        /\ update_patient_status(patients[i].id, COMPLETED, NoneValue, Bearer(t)).code = 403

-----------------------------------------------------------------------------
(* C4: create clinical note answers a front-desk or patient caller with     *)
(* 403, inserts no note and changes no patient record; every stored note    *)
(* was written by a doctor or super-admin.                                  *)

C4_Request(header, soap_data) ==
    LET r == create_soap_notes(soap_data, header) IN
    /\ (Authenticated(header) /\ Caller(header).role \in {FRONT_DESK, PATIENT})
          => (r.code = 403 /\ r.soap_notes = soap_notes /\ r.patients = patients)
    /\ r.soap_notes # soap_notes
          => (Authenticated(header) /\ Caller(header).role \in {DOCTOR, SUPER_ADMIN})

C4_CreateNoteRoles ==
    \A header \in Headers, soap_data \in SOAPNotesCreateInputs :
        C4_Request(header, soap_data)

\* a front-desk caller is refused on a consulting patient; nothing is stored
C4_Witness ==
    \E t \in tokens, i \in DOMAIN patients :
        /\ Caller(Bearer(t)).role = FRONT_DESK
        /\ patients[i].status = CONSULTING
        /\ LET soap_data == [patient_id |-> patients[i].id, subjective |-> "S",
                             objective |-> "O", assessment |-> "A", plan |-> "P"]
           IN  create_soap_notes(soap_data, Bearer(t)).code = 403

-----------------------------------------------------------------------------
(* C5, as claimed: update patient status on an id that matches no record    *)
(* answers 404 for a caller of any of the four roles and changes nothing.   *)

C5_GhostAnswer(header, status, assigned_doctor_id) ==
    update_patient_status(GhostId, status, assigned_doctor_id, header)

C5_NotFoundForAnyRole ==
    \A header \in Headers, status \in PatientStatus, assigned_doctor_id \in DoctorIdInputs :
        Authenticated(header) =>
            /\ C5_GhostAnswer(header, status, assigned_doctor_id).code = 404
            /\ C5_GhostAnswer(header, status, assigned_doctor_id).patients = patients

(* C5, amended: on an id that matches no record the answer is 404 for a     *)
(* front-desk, doctor or super-admin caller and 403 for a patient-role      *)
(* caller (the role check precedes the lookup); db.patients is unchanged    *)
(* in both cases.                                                           *)

C5_NotFoundForStaff ==
    \A header \in Headers, status \in PatientStatus, assigned_doctor_id \in DoctorIdInputs :
        LET r == C5_GhostAnswer(header, status, assigned_doctor_id) IN
        Authenticated(header) =>
            /\ ~HasId(patients, GhostId)
            /\ r.patients = patients
            /\ Caller(header).role \in {FRONT_DESK, DOCTOR, SUPER_ADMIN} => r.code = 404
            /\ Caller(header).role = PATIENT => r.code = 403

C5_Witness ==
    /\ Len(patients) > 1
    /\ \E t \in tokens :
          /\ Caller(Bearer(t)).role = DOCTOR
          /\ C5_GhostAnswer(Bearer(t), CONSULTING, Caller(Bearer(t)).id).code = 404

-----------------------------------------------------------------------------
(* C6: list patients answers a patient-role caller with a sequence of       *)
(* length 0 or 1, and the one record, if any, has the caller's email.       *)

C6_PatientListsOwnRecord ==
    \A header \in Headers :
        (Authenticated(header) /\ Caller(header).role = PATIENT) =>
            LET r == get_patients(header) IN
            /\ r.code = 200
            /\ Len(r.body) <= 1
            /\ Len(r.body) = 1 => r.body[1].email = Caller(header).email

\* two records carry the caller's email and the caller is shown one
C6_Witness ==
    \E t \in tokens :
        /\ Caller(Bearer(t)).role = PATIENT
        /\ Cardinality({i \in DOMAIN patients :
                           patients[i].email = Caller(Bearer(t)).email}) > 1
        /\ Len(get_patients(Bearer(t)).body) = 1

-----------------------------------------------------------------------------
(* C7: for a patient-role caller and an existing record, get one patient    *)
(* and read clinical notes answer 200 only when the record's email is the   *)
(* caller's; otherwise both answer 403 with nothing but the error detail.   *)

C7_Request(header, patient_id) ==
    LET record == ById(patients, patient_id)
        g == get_patient(patient_id, header)
        n == get_patient_soap_notes(patient_id, header)
        ForPatient(note) == note.patient_id = patient_id
    IN  IF record.email = Caller(header).email
        THEN /\ g.code = 200 /\ g.body = record
             /\ n.code = 200 /\ n.body = SelectSeq(soap_notes, ForPatient)
        ELSE /\ g.code = 403 /\ g.body = [detail |-> "Not authorized"]
             /\ n.code = 403 /\ n.body = [detail |-> "Not authorized"]

-----------------------------------------------------------------------------
(* C8, as claimed: list appointments answers a patient-role caller only     *)
(* with appointments whose patient reference is the id of a patient record  *)
(* with the caller's email.                                                 *)

C8_PatientSeesOwnAppointments ==
    \A header \in Headers :
        (Authenticated(header) /\ Caller(header).role = PATIENT) =>
            \A a \in Range(get_appointments(header).body) :
                \E p \in Range(patients) :
                    p.email = Caller(header).email /\ a.patient_id = p.id

-----------------------------------------------------------------------------
(* C9, as claimed: an appointment stored for a patient-role caller          *)
(* references the caller's own patient record, and one stored for a         *)
(* doctor-role caller has the caller's id as its doctor reference: every    *)
(* step that stores an appointment is the request of some caller for whom   *)
(* that holds.                                                              *)

C9_Scoped(header, stored) ==
    /\ Caller(header).role = PATIENT =>
          \E p \in Range(patients) :
              p.email = Caller(header).email /\ stored.patient_id = p.id
    /\ Caller(header).role = DOCTOR => stored.doctor_id = Caller(header).id

C9_CreateAppointmentScoped ==
    [][ appointments' # appointments =>
          \E header \in Headers, appointment_data \in AppointmentCreateInputs :
              LET r == create_appointment(appointment_data, header) IN
              /\ Authenticated(header)
              /\ appointments' = r.appointments
              /\ C9_Scoped(header, r.body) ]_vars

-----------------------------------------------------------------------------
(* C10, as claimed: every endpoint other than register and login answers a  *)
(* request whose header carries no token, a malformed one or an expired one *)
(* with 401, and changes no state.                                          *)

C10_Codes(header) ==
    {get_me(header).code, get_patients(header).code, get_users(header).code,
     get_doctors(header).code, get_appointments(header).code,
     get_dashboard_stats(header).code}
    \cup {create_patient(d, header).code : d \in PatientCreateInputs}
    \cup {get_patient(id, header).code : id \in PatientIdInputs}
    \cup {get_patient_soap_notes(id, header).code : id \in PatientIdInputs}
    \cup {update_patient_status(id, st, doc, header).code :
             id \in PatientIdInputs, st \in PatientStatus, doc \in DoctorIdInputs}
    \cup {create_soap_notes(d, header).code : d \in SOAPNotesCreateInputs}
    \cup {create_appointment(d, header).code : d \in AppointmentCreateInputs}

C10_Writes(header) ==
    {create_patient(d, header).patients : d \in PatientCreateInputs}
    \cup {update_patient_status(id, st, doc, header).patients :
             id \in PatientIdInputs, st \in PatientStatus, doc \in DoctorIdInputs}
    \cup {create_soap_notes(d, header).patients : d \in SOAPNotesCreateInputs}
    \cup {create_soap_notes(d, header).soap_notes : d \in SOAPNotesCreateInputs}
    \cup {create_appointment(d, header).appointments : d \in AppointmentCreateInputs}

C10_BadTokenIs401 ==
    \A header \in Headers :
        ~Authenticated(header) =>
            /\ C10_Codes(header) = {401}
            /\ C10_Writes(header) \subseteq {patients, soap_notes, appointments}

-----------------------------------------------------------------------------
(* C11, as claimed: once the identity a token names has its active flag     *)
(* cleared, the token no longer resolves: every step that deactivates the   *)
(* identity of a token that resolved before the step leaves that token      *)
(* unresolvable.                                                            *)

C11_DeactivationStopsToken ==
    [][ \A t \in tokens, i \in DOMAIN users :
          ( /\ users[i].id = t.payload.user_id
            /\ users[i].is_active
            /\ ~users'[i].is_active
            /\ Authenticated(Bearer(t)) )
          => ~Authenticated(Bearer(t))' ]_vars

-----------------------------------------------------------------------------
(* C12: in every state each issued token that resolves, resolves to the     *)
(* identity whose id it carries, and that identity's role is the role the   *)
(* token was issued with; every step keeps each stored identity in place    *)
(* with the same id and role (none is deleted, none changes role).          *)

C12_ResolvesAsIssued ==
    \A t \in tokens :
        LET r == get_current_user(Bearer(t)) IN
        r.ok => (r.user.id = t.payload.user_id /\ r.user.role = t.payload.role)

C12_TokenKeepsIdentity ==
    [][ /\ C12_ResolvesAsIssued
        /\ C12_ResolvesAsIssued'
        /\ \A i \in DOMAIN users :
              /\ i \in DOMAIN users'
              /\ users'[i].id = users[i].id
              /\ users'[i].role = users[i].role ]_vars

\* the token of a registered identity resolves at a later time, other
\* registrations having been attempted since
C12_Witness ==
    \E t \in tokens :
        /\ Authenticated(Bearer(t))
        /\ Caller(Bearer(t)).id = uuid4("u", Len(sample_users) + 1)
        /\ Caller(Bearer(t)).role = t.payload.role
        /\ now > t.payload.exp - TOKEN_TTL

-----------------------------------------------------------------------------
(* C13: a token issued by login carries the expiry issue time + 24 hours;   *)
(* in every state an issued token resolves exactly when the clock is before *)
(* its expiry, and from the expiry on every authenticated endpoint answers  *)
(* it with 401 "Token expired".                                             *)

C13_ResolvesUntilExpiry ==
    \A t \in tokens :
        /\ Authenticated(Bearer(t)) <=> now < t.payload.exp
        /\ now >= t.payload.exp =>
              /\ C10_Codes(Bearer(t)) = {401}
              /\ get_me(Bearer(t)).body = [detail |-> "Token expired"]

C13_TokenExpiry ==
    [][ /\ \A t \in tokens' \ tokens : t.payload.exp = now + 24 * 60 * 60
        /\ C13_ResolvesUntilExpiry
        /\ C13_ResolvesUntilExpiry' ]_vars

\* the clock has reached the expiry of a token that was used before
C13_Witness ==
    \E t \in tokens :
        /\ now = t.payload.exp
        /\ get_me(Bearer(t)).code = 401
        /\ \E u \in Range(users) : u.id = t.payload.user_id

-----------------------------------------------------------------------------
(* C14: register with an email that a stored identity has answers 400       *)
(* "Email already registered" and leaves db.users as it is, whatever name,  *)
(* role and secret the request carries.                                     *)

C14_TakenEmailInputs ==
    [email : {u.email : u \in Range(users)}, password : {"secret", "admin123"},
     name : {"New User", "Super Admin"}, role : UserRole]

C14_DuplicateEmailRefused ==
    \A user_data \in C14_TakenEmailInputs :
        LET r == register(user_data) IN
        /\ r.code = 400
        /\ r.body = [detail |-> "Email already registered"]
        /\ r.users = users

\* a registered identity's email is refused when registered again with another role
C14_Witness ==
    /\ Len(users) > Len(sample_users)
    /\ \E user_data \in C14_TakenEmailInputs :
          /\ user_data.email = users[Len(users)].email
          /\ user_data.role # users[Len(users)].role
          /\ register(user_data).code = 400

-----------------------------------------------------------------------------
(* C15, as claimed: in every state no two stored identities have the same   *)
(* email, register requests for one email interleaving between the lookup   *)
(* and the insert included.                                                 *)

C15_UniqueEmails ==
    \A i, j \in DOMAIN users : users[i].email = users[j].email => i = j

-----------------------------------------------------------------------------
(* C16: after a step in which register succeeds for (email, secret, name,   *)
(* role), login with that email and secret answers 200 with a token, and    *)
(* get me with that token answers 200 with an identity of that email and    *)
(* role.                                                                    *)

C16_LoginAfter(user_data) ==
    LET l == login([email |-> user_data.email, password |-> user_data.password])
        m == get_me(Bearer(l.body.access_token))
    IN  /\ l.code = 200
        /\ l.body.user.role = user_data.role
        /\ m.code = 200
        /\ m.body.email = user_data.email
        /\ m.body.role = user_data.role

C16_RegisterThenLogin ==
    [][ \A user_data \in UserCreateInputs :
          (register(user_data).code = 200 /\ users' = register(user_data).users)
          => C16_LoginAfter(user_data)' ]_vars

\* a registered identity that has logged in and is resolved by get me
C16_Witness ==
    /\ Len(users) > Len(sample_users)
    /\ \E t \in tokens :
          /\ t.payload.user_id = users[Len(users)].id
          /\ get_me(Bearer(t)).code = 200
          /\ get_me(Bearer(t)).body.role = users[Len(users)].role

-----------------------------------------------------------------------------
(* C17: login answers 401 "Invalid credentials", the same response, when    *)
(* no identity has the email and when an identity has it but the secret is  *)
(* not that identity's: any two failing logins get equal responses.         *)

C17_EmailKnown(login_data) == \E u \in Range(users) : u.email = login_data.email

C17_SecretRight(login_data) ==
    \E u \in Range(users) :
        u.email = login_data.email /\ u.password = hash_password(login_data.password)

C17_LoginFailuresAlike ==
    \A a, b \in UserLoginInputs :
        /\ ~C17_SecretRight(a) =>
              login(a) = [code |-> 401, body |-> [detail |-> "Invalid credentials"]]
        /\ (~C17_EmailKnown(a) /\ C17_EmailKnown(b) /\ ~C17_SecretRight(b))
              => login(a) = login(b)

\* while somebody is logged in, an unknown email and a wrong secret fail alike
C17_Witness ==
    /\ tokens # {}
    /\ \E a, b \in UserLoginInputs :
          /\ ~C17_EmailKnown(a)
          /\ C17_EmailKnown(b) /\ ~C17_SecretRight(b)
          /\ login(a).code = 401
          /\ login(a) = login(b)

-----------------------------------------------------------------------------
(* C18: list all identities answers 200 only for a super-admin caller, who  *)
(* gets every stored identity; a front-desk, doctor or patient caller gets  *)
(* 403 with nothing but the error detail.                                   *)

C18_OnlySuperAdminListsUsers ==
    \A header \in Headers :
        LET r == get_users(header) IN
        /\ r.code = 200 => (Authenticated(header) /\ Caller(header).role = SUPER_ADMIN)
        /\ Authenticated(header) =>
              IF Caller(header).role = SUPER_ADMIN
              THEN /\ r.code = 200
                   /\ Len(r.body) = Len(users)
                   /\ \A i \in DOMAIN users : r.body[i].email = users[i].email
              ELSE /\ r.code = 403
                   /\ r.body = [detail |-> "Only super admin can view all users"]

\* a registered front-desk, doctor or patient identity is refused the list
C18_Witness ==
    \E t \in tokens :
        /\ Caller(Bearer(t)).id = uuid4("u", Len(sample_users) + 1)
        /\ Caller(Bearer(t)).role \in {FRONT_DESK, DOCTOR, PATIENT}
        /\ get_users(Bearer(t)).code = 403

-----------------------------------------------------------------------------
(* C19, as claimed: in every state the patient reference of every stored    *)
(* clinical note is the id of a stored patient record.                      *)

C19_NotesReferencePatients ==
    \A i \in DOMAIN soap_notes : HasId(patients, soap_notes[i].patient_id)

-----------------------------------------------------------------------------
(* C20: with requests run one at a time, dashboard stats answers a          *)
(* super-admin or front-desk caller with total = the number of patient      *)
(* records and registered, consulting, completed = the number of records    *)
(* in that status.                                                          *)

RECURSIVE C20_InStatus(_, _)
C20_InStatus(records, status) ==
    IF records = <<>> THEN 0
    ELSE (IF Head(records).status = status THEN 1 ELSE 0)
             + C20_InStatus(Tail(records), status)

C20_AdminStatsCount ==
    \A header \in Headers :
        (Authenticated(header) /\ Caller(header).role \in {SUPER_ADMIN, FRONT_DESK}) =>
            LET r == get_dashboard_stats(header) IN
            /\ r.code = 200
            /\ r.body = [total_patients |-> Len(patients),
                         registered_patients |-> C20_InStatus(patients, REGISTERED),
                         consulting_patients |-> C20_InStatus(patients, CONSULTING),
                         completed_patients |-> C20_InStatus(patients, COMPLETED)]

\* records in two different statuses, counted for an admin-class caller
C20_Witness ==
    \E t \in tokens :
        /\ Caller(Bearer(t)).role \in {SUPER_ADMIN, FRONT_DESK}
        /\ Len(patients) = MaxPatients
        /\ C20_InStatus(patients, REGISTERED) = MaxPatients - 1
        /\ get_dashboard_stats(Bearer(t)).body.consulting_patients = 1
        /\ get_dashboard_stats(Bearer(t)).body.total_patients = MaxPatients

-----------------------------------------------------------------------------
(* C21: when a record created by a front-desk identity is consulting with   *)
(* doctor D assigned and has no note, the step in which D stores a note for *)
(* it leaves it so that reading the record shows status completed and       *)
(* reading its notes returns exactly one note, written by D.                *)

C21_Ready(pid, uid) ==
    /\ HasId(patients, pid) /\ HasId(users, uid)
    /\ ById(users, uid).role = DOCTOR
    /\ ById(patients, pid).status = CONSULTING
    /\ ById(patients, pid).assigned_doctor_id = uid
    /\ \E u \in Range(users) :
          u.id = ById(patients, pid).created_by /\ u.role = FRONT_DESK
    /\ \A n \in Range(soap_notes) : n.patient_id # pid

C21_Reads(pid, uid) ==
    /\ \E header \in Headers : Authenticated(header) /\ Caller(header).id = uid
    /\ \A header \in Headers :
          (Authenticated(header) /\ Caller(header).id = uid) =>
              LET g == get_patient(pid, header)
                  n == get_patient_soap_notes(pid, header)
              IN  /\ g.code = 200 /\ g.body.status = COMPLETED
                  /\ n.code = 200 /\ Len(n.body) = 1
                  /\ n.body[1].doctor_id = uid /\ n.body[1].patient_id = pid

C21_WorkflowEndsCompleted ==
    [][ Len(soap_notes') > Len(soap_notes) =>
          \A pid \in AllPatientIds, uid \in AllUserIds :
              ( /\ soap_notes'[Len(soap_notes')].patient_id = pid
                /\ soap_notes'[Len(soap_notes')].doctor_id = uid
                /\ C21_Ready(pid, uid) )
              => C21_Reads(pid, uid)' ]_vars

\* a record created through the API by front desk has gone through the workflow
C21_Witness ==
    \E i \in DOMAIN patients, t \in tokens :
        /\ i > 1
        /\ patients[i].created_by = sample_users[2].id
        /\ patients[i].assigned_doctor_id = sample_users[3].id
        /\ patients[i].status = COMPLETED
        /\ Caller(Bearer(t)).id = sample_users[3].id
        /\ Len(get_patient_soap_notes(patients[i].id, Bearer(t)).body) = 1
        /\ get_patient_soap_notes(patients[i].id, Bearer(t)).body[1].doctor_id
              = sample_users[3].id

-----------------------------------------------------------------------------
(* C22: every record that create patient adds has status registered, no     *)
(* assigned doctor and the caller's id as creator, also when the request    *)
(* body names a status, a doctor or a creator of its own.                   *)

C22_Bodies ==
    PatientCreateInputs
    \cup [email : {"patient@example.com", NewEmail}, status : {CONSULTING, COMPLETED},
          assigned_doctor_id : {sample_users[3].id}, created_by : {sample_users[4].id}]

C22_NewPatientDefaults ==
    \A header \in Headers, body \in C22_Bodies :
        LET r == create_patient(body, header) IN
        r.code = 200 =>
            /\ r.patients = Append(patients, r.body)
            /\ r.body.email = body.email
            /\ r.body.status = REGISTERED
            /\ r.body.assigned_doctor_id = NoneValue
            /\ r.body.created_by = Caller(header).id

\* a super-admin has added a record, and a body naming status, doctor and
\* creator is accepted from the same caller
C22_Witness ==
    \E i \in DOMAIN patients, t \in tokens, body \in C22_Bodies :
        /\ i > 1
        /\ Caller(Bearer(t)).role = SUPER_ADMIN
        /\ patients[i].created_by = Caller(Bearer(t)).id
        /\ patients[i].status = REGISTERED
        /\ "status" \in DOMAIN body
        /\ body.created_by # Caller(Bearer(t)).id
        /\ create_patient(body, Bearer(t)).code = 200

-----------------------------------------------------------------------------
(* C23: for every stored patient record, whatever its status s, and every   *)
(* status t (t = s and moves back out of completed included), update status *)
(* by a front-desk, doctor or super-admin caller answers 200 and leaves     *)
(* that record in status t and every other record as it was.                *)

C23_AnyTransitionAllowed ==
    \A header \in Headers, i \in DOMAIN patients, s \in PatientStatus,
       t \in PatientStatus, assigned_doctor_id \in DoctorIdInputs :
        ( /\ Authenticated(header)
          /\ Caller(header).role \in {FRONT_DESK, DOCTOR, SUPER_ADMIN}
          /\ patients[i].status = s )
        => LET r == update_patient_status(patients[i].id, t, assigned_doctor_id, header)
           IN  /\ r.code = 200
               /\ r.body = [message |-> "Patient status updated successfully"]
               /\ Len(r.patients) = Len(patients)
               /\ r.patients[i].status = t
               /\ \A j \in DOMAIN patients : j # i => r.patients[j] = patients[j]

\* a record completed by a clinical note is moved back to registered
C23_Witness ==
    \E t \in tokens, i \in DOMAIN patients :
        /\ Caller(Bearer(t)).role \in {FRONT_DESK, DOCTOR, SUPER_ADMIN}
        /\ patients[i].status = COMPLETED
        /\ \E n \in Range(soap_notes) : n.patient_id = patients[i].id
        /\ LET r == update_patient_status(patients[i].id, REGISTERED, NoneValue,
                                           Bearer(t))
           IN  r.code = 200 /\ r.patients[i].status = REGISTERED

-----------------------------------------------------------------------------
(* C24: with an update status request and a create clinical note request    *)
(* (or two update status requests) in progress together, every status write *)
(* that is applied leaves the record in the status of that write, and a     *)
(* record's status changes in no other way: the final status is that of the *)
(* write applied last.                                                      *)

C24_Applied(c) ==
    /\ Pending(c)
    /\ inflight[c].op \in {"update_patient_status", "create_soap_notes"}
    /\ inflight'[c].op = "response"
    /\ inflight'[c].code = 200

C24_LastWriteWins ==
    [][ /\ \A c \in Clients :
              (C24_Applied(c) /\ HasId(patients, inflight[c].patient_id))
              => ById(patients', inflight[c].patient_id).status = inflight[c].status
        /\ \A i \in DOMAIN patients :
              patients'[i].status # patients[i].status
              => \E c \in Clients :
                     C24_Applied(c) /\ inflight[c].patient_id = patients[i].id ]_vars

\* both requests overlapped and were answered 200, the note is stored, and the
\* status is the one of the update, not completed
C24_Witness ==
    \E c1, c2 \in Clients :
        /\ inflight[c1].op = "response" /\ inflight[c1].of = "create_soap_notes"
        /\ inflight[c2].op = "response" /\ inflight[c2].of = "update_patient_status"
        /\ inflight[c1].code = 200 /\ inflight[c2].code = 200
        /\ inflight[c1].patient_id = inflight[c2].patient_id
        /\ c1 \in inflight[c2].during
        /\ \E n \in Range(soap_notes) : n.patient_id = inflight[c1].patient_id
        /\ HasId(patients, inflight[c1].patient_id)
        /\ ById(patients, inflight[c1].patient_id).status = inflight[c2].status
        /\ inflight[c2].status # COMPLETED

-----------------------------------------------------------------------------
(* C25: the insert of a note and the completion write are two steps.  The   *)
(* insert changes no patient record; when the request stops between the two *)
(* the note stays stored and every patient record stays as it is; a request *)
(* that has ended takes no further step, and a record becomes completed     *)
(* only by the write of a request still in progress.                        *)

C25_Stopped(c) ==
    /\ inflight[c].op = "response"
    /\ inflight[c].of = "create_soap_notes"
    /\ inflight[c].code = 500

C25_NoRollbackNoRetry ==
    [][ /\ Len(soap_notes') > Len(soap_notes) => patients' = patients
        /\ \A i \in DOMAIN soap_notes :
              i \in DOMAIN soap_notes' /\ soap_notes'[i] = soap_notes[i]
        /\ \A c \in Clients :
              /\ (inflight[c].op = "create_soap_notes" /\ C25_Stopped(c)')
                    => (soap_notes' = soap_notes /\ patients' = patients)
              /\ inflight[c].op = "response" => inflight'[c] = inflight[c]
        /\ \A i \in DOMAIN patients :
              (patients[i].status # COMPLETED /\ patients'[i].status = COMPLETED)
              => \E c \in Clients :
                     C24_Applied(c) /\ inflight[c].patient_id = patients[i].id ]_vars

\* every request has ended, one of them a note request that stopped after its
\* insert: the note is stored and the patient is still consulting
C25_Witness ==
    /\ \A c \in Clients : inflight[c].op = "response"
    /\ \E c \in Clients :
          /\ C25_Stopped(c)
          /\ \E n \in Range(soap_notes) : n.patient_id = inflight[c].patient_id
          /\ HasId(patients, inflight[c].patient_id)
          /\ ById(patients, inflight[c].patient_id).status = CONSULTING

-----------------------------------------------------------------------------
(* C26, as claimed: in every state, for each patient-role identity, at most *)
(* one patient record has that identity's email.                            *)

C26_OneRecordPerPatientIdentity ==
    \A u \in Range(users) :
        u.role = PATIENT =>
            \A i, j \in DOMAIN patients :
                (patients[i].email = u.email /\ patients[j].email = u.email) => i = j

-----------------------------------------------------------------------------
(* C27: every step leaves each stored clinical note in its place with every *)
(* field as it was; db.soap_notes only grows.                               *)

C27_NotesImmutable ==
    [][ /\ Len(soap_notes') >= Len(soap_notes)
        /\ \A i \in DOMAIN soap_notes : soap_notes'[i] = soap_notes[i] ]_vars

\* a note is still as its author stored it after its patient was moved back
\* to registered and another identity has logged in
C27_Witness ==
    \E n \in Range(soap_notes), t \in tokens :
        /\ HasId(patients, n.patient_id)
        /\ ById(patients, n.patient_id).status = REGISTERED
        /\ Caller(Bearer(t)).id # n.doctor_id
        /\ Caller(Bearer(t)).role \in {DOCTOR, SUPER_ADMIN}
        /\ n.subjective = "S" /\ n.plan = "P"
        /\ get_patient_soap_notes(n.patient_id, Bearer(t)).body = <<n>>

-----------------------------------------------------------------------------
(* C28: the note that create clinical note stores has the caller's id as    *)
(* author, also when the request body names an author, and the caller is a  *)
(* doctor or super-admin; every stored note's author is such an identity.   *)

C28_Bodies ==
    SOAPNotesCreateInputs
    \cup [patient_id : PatientIdInputs, subjective : {"S"}, objective : {"O"},
          assessment : {"A"}, plan : {"P"},
          doctor_id : {sample_users[2].id, sample_users[3].id}]

C28_AuthorIsCaller ==
    /\ \A header \in Headers, body \in C28_Bodies :
          LET r == create_soap_notes(body, header) IN
          r.code = 200 =>
              /\ r.soap_notes = Append(soap_notes, r.body)
              /\ r.body.doctor_id = Caller(header).id
              /\ Caller(header).role \in {DOCTOR, SUPER_ADMIN}
    /\ \A n \in Range(soap_notes) :
          \E u \in Range(users) : u.id = n.doctor_id /\ u.role \in {DOCTOR, SUPER_ADMIN}

\* a super-admin has stored a note, and a body naming the doctor as author
\* would be stored under the super-admin's id
C28_Witness ==
    \E n \in Range(soap_notes), t \in tokens, body \in C28_Bodies :
        /\ Caller(Bearer(t)).role = SUPER_ADMIN
        /\ n.doctor_id = Caller(Bearer(t)).id
        /\ "doctor_id" \in DOMAIN body
        /\ body.doctor_id # Caller(Bearer(t)).id
        /\ create_soap_notes(body, Bearer(t)).code = 200
        /\ create_soap_notes(body, Bearer(t)).body.doctor_id = Caller(Bearer(t)).id

-----------------------------------------------------------------------------
(* C29, as claimed: every dashboard stats response for an admin-class       *)
(* caller has total = registered + consulting + completed, update status    *)
(* requests that are served between its four counts included.               *)

C29_StatsAddUp ==
    \A c \in Clients :
        (inflight[c].op = "response" /\ inflight[c].of = "get_dashboard_stats") =>
            inflight[c].body.total_patients =
                inflight[c].body.registered_patients
                + inflight[c].body.consulting_patients
                + inflight[c].body.completed_patients

-----------------------------------------------------------------------------
(* C30: a step changes the assigned doctor of a patient record only if it   *)
(* is a successful update status call for that record with a non-empty      *)
(* doctor id, which becomes the assigned doctor; such a step writes no      *)
(* clinical note, so update status without a doctor id and the completion   *)
(* write of create clinical note leave the assigned doctor as it was, and   *)
(* an assigned doctor is never cleared.                                     *)

C30_AssignedDoctorFrame ==
    [][ \A i \in DOMAIN patients :
          /\ patients'[i].assigned_doctor_id # patients[i].assigned_doctor_id
             => /\ soap_notes' = soap_notes
                /\ \E header \in Headers, status \in PatientStatus,
                      doctor \in DoctorIdInputs \ {NoneValue, EmptyString} :
                       LET r == update_patient_status(patients[i].id, status,
                                                      doctor, header)
                       IN  /\ r.code = 200
                           /\ patients' = r.patients
                           /\ patients'[i].assigned_doctor_id = doctor
          /\ patients[i].assigned_doctor_id \notin {NoneValue, EmptyString}
             => patients'[i].assigned_doctor_id \notin {NoneValue, EmptyString} ]_vars

\* a patient with an assigned doctor was completed by a clinical note, and an
\* update status call without a doctor id and one with an empty doctor id
\* both succeed on it and keep the doctor
C30_Witness ==
    \E t \in tokens, i \in DOMAIN patients :
        /\ patients[i].assigned_doctor_id = sample_users[3].id
        /\ patients[i].status = COMPLETED
        /\ \E n \in Range(soap_notes) : n.patient_id = patients[i].id
        /\ \A doctor \in {NoneValue, EmptyString} :
               LET r == update_patient_status(patients[i].id, REGISTERED, doctor,
                                              Bearer(t))
               IN  /\ r.code = 200
                   /\ r.patients[i].status = REGISTERED
                   /\ r.patients[i].assigned_doctor_id = sample_users[3].id

====
